---- MODULE Spec2Model ----
(***************************************************************************)
(* A model of fb_automation's content-generation and publication core:     *)
(*   - AIConfiguration.save and the "single default" registry rule,        *)
(*   - generate_text_with_fallback (the fallback orchestrator),            *)
(*   - publish_to_multiple_pages (the batch publication coordinator),      *)
(*   - the ScheduledPost lifecycle: process_scheduled_posts,               *)
(*     schedule_content_generation, generate_content_for_post,             *)
(*     publish_post_task and the approval views.                           *)
(*   - schedule_multiple_posts, the administration site,                   *)
(*   - FacebookAPIClient._make_request and validate_access_token.          *)
(* Each part has its own specification over the shared variables; the      *)
(* variables of the other parts stay at their idle values.                 *)
(***************************************************************************)
EXTENDS Integers, Sequences, FiniteSets, TLC

VARIABLES
    configs,      \* the AIConfiguration table: config id -> row
    savers,       \* AIConfiguration.save calls in progress: saver -> frame
    lastSave,     \* the instance written by the last completed save
    gen,          \* the frame of one generate_text_with_fallback call
    pub,          \* the frame of one publish_to_multiple_pages or
                  \* schedule_multiple_posts call
    pages,        \* the FacebookPage table: page id -> row
    posts,        \* the ScheduledPost table: post id -> row
    now,          \* timezone.now(), in units of 30 minutes
    queue,        \* tasks enqueued with .delay() and not started yet
    sweeps,       \* process_scheduled_posts runs: sweep -> frame
    workers,      \* task executions (generation, publication): worker -> frame
    published,    \* PublishedPost rows: post id -> number of rows
    fbPosts,      \* successful create_post calls per post id
    approvals,    \* the posts approve_post has been applied to
    api           \* the frame of one FacebookAPIClient call

cfgVars == <<configs, savers, lastSave>>
genVars == <<gen>>
pubVars == <<pub, pages>>
schVars == <<posts, now, queue, sweeps, workers, published, fbPosts, approvals>>
apiVars == <<api>>
vars == <<configs, savers, lastSave, gen, pub, pages, posts, now, queue,
          sweeps, workers, published, fbPosts, approvals, api>>

\* What each part leaves alone: the variables of the other parts.
cfgOthers == <<gen, pub, pages, posts, now, queue, sweeps, workers, published,
               fbPosts, approvals, api>>
genOthers == <<savers, lastSave, pub, pages, posts, now, queue, sweeps, workers,
               published, fbPosts, approvals, api>>
pubOthers == <<configs, savers, lastSave, gen, posts, now, queue, sweeps, workers,
               published, fbPosts, approvals, api>>
schOthers == <<configs, savers, lastSave, gen, pub, pages, api>>
apiOthers == <<configs, savers, lastSave, gen, pub, pages, posts, now, queue,
               sweeps, workers, published, fbPosts, approvals>>

(***************************************************************************)
(* Bounds of the model.                                                    *)
(***************************************************************************)
MaxConfigs == 3
MaxSavers == 2

CfgIds == 1..MaxConfigs
SaverIds == 1..MaxSavers

(***************************************************************************)
(* AIConfiguration (models.py).                                            *)
(***************************************************************************)
Absent == [exists |-> FALSE, is_default |-> FALSE, provider |-> "", model |-> ""]

ConfigRow(d, p, m) == [exists |-> TRUE, is_default |-> d, provider |-> p, model |-> m]

\* The ids of the rows with is_default = True.
DefaultSet(cs) == {c \in CfgIds : cs[c].exists /\ cs[c].is_default}

ExistingSet(cs) == {c \in CfgIds : cs[c].exists}

\* A mutation of ClearDefaults: the update is forgotten.
ClearDefaults_Forgotten(cs) == cs

\* AIConfiguration.objects.filter(is_default=True).update(is_default=False)
ClearDefaults(cs) ==
    [c \in CfgIds |-> IF cs[c].exists /\ cs[c].is_default
                      THEN [cs[c] EXCEPT !.is_default = FALSE]
                      ELSE cs[c]]

\* super().save(): the row of the instance is inserted or overwritten with
\* the instance's fields.
WriteRow(cs, inst) ==
    [cs EXCEPT ![inst.id] = ConfigRow(inst.is_default, inst.provider, inst.model)]

\* AIConfiguration.save as one uninterrupted call.
SaveResult(cs, inst) ==
    WriteRow(IF inst.is_default THEN ClearDefaults(cs) ELSE cs, inst)

\* The instances a caller may save: any id, any flag (a stale in-memory
\* instance included), the providers the admin form offers.
Instances ==
    [id : CfgIds, is_default : BOOLEAN, provider : {"openai", "gemini"},
     model : {"gpt"}]

NoSave == [id |-> 0, is_default |-> FALSE, provider |-> "", model |-> ""]

IdleSaver == [pc |-> "idle", inst |-> NoSave]

\* Registries that sequences of save calls produce: at most one default.
SavedRegistries ==
    {cs \in [CfgIds -> {Absent} \cup {ConfigRow(d, p, "gpt") :
                                        d \in BOOLEAN, p \in {"openai", "gemini"}}] :
        Cardinality(DefaultSet(cs)) <= 1}

\* AIConfiguration.save, executed without interruption (a caller that saves
\* one configuration at a time).
SaveConfig(inst) ==
    /\ \A s \in SaverIds : savers[s].pc = "idle"
    /\ configs' = SaveResult(configs, inst)
    /\ lastSave' = inst
    /\ UNCHANGED savers
    /\ UNCHANGED cfgOthers

\* AIConfiguration.save in a worker that runs beside others, first statement:
\* "if self.is_default: ...update(is_default=False)".
SaveUpdate(s, inst) ==
    /\ savers[s].pc = "idle"
    /\ configs' = IF inst.is_default THEN ClearDefaults(configs) ELSE configs
    /\ savers' = [savers EXCEPT ![s] = [pc |-> "write", inst |-> inst]]
    /\ UNCHANGED lastSave
    /\ UNCHANGED cfgOthers

\* Second statement of the same call: super().save().
SaveWrite(s) ==
    /\ savers[s].pc = "write"
    /\ configs' = WriteRow(configs, savers[s].inst)
    /\ lastSave' = savers[s].inst
    /\ savers' = [savers EXCEPT ![s] = IdleSaver]
    /\ UNCHANGED cfgOthers

CfgIdle ==
    /\ configs = [c \in CfgIds |-> Absent]
    /\ savers = [s \in SaverIds |-> IdleSaver]
    /\ lastSave = NoSave

CfgInit ==
    /\ configs \in SavedRegistries
    /\ savers = [s \in SaverIds |-> IdleSaver]
    /\ lastSave = NoSave

(***************************************************************************)
(* generate_text_with_fallback (services/text_generation.py).              *)
(***************************************************************************)
RECURSIVE AscSeq(_)
\* The elements of a set of numbers in ascending order.
AscSeq(S) ==
    IF S = {} THEN <<>>
    ELSE LET m == CHOOSE x \in S : \A y \in S : x <= y
         IN  <<m>> \o AscSeq(S \ {m})

\* A mutation of OrderedConfigs: the default is not moved to the front.
OrderedConfigs_ByIdOnly(cs) == AscSeq(ExistingSet(cs))

\* AIConfiguration.objects.all().order_by("-is_default", "created_at"): ids
\* are handed out in creation order, so created_at ascending is id ascending.
OrderedConfigs(cs) ==
    AscSeq(DefaultSet(cs)) \o AscSeq(ExistingSet(cs) \ DefaultSet(cs))

\* configs_to_try: the configuration passed, then every row not yet listed.
ConfigsToTry(explicit, cs) ==
    LET head == IF explicit # 0 THEN <<explicit>> ELSE <<>>
    IN  head \o SelectSeq(OrderedConfigs(cs), LAMBDA c : c # explicit)

\* The provider of a configuration: its provider field, else the prefix of
\* its model name.
ResolveProvider(row) ==
    IF row.provider # "" THEN row.provider
    ELSE IF row.model \in {"gpt", "o"} THEN "openai"
    ELSE IF row.model = "gemini" THEN "gemini"
    ELSE "desconhecido"

MaxLen == 2

RECURSIVE SeqsUpTo(_, _)
\* The sequences over S of length at most n.
SeqsUpTo(S, n) ==
    IF n = 0 THEN {<<>>}
    ELSE LET shorter == SeqsUpTo(S, n - 1)
         IN  shorter \cup {Append(q, x) : q \in shorter, x \in S}

\* The characters of a text: a blank and a letter.
Chars == {" ", "a"}

\* The texts a vendor may send, as sequences of characters.
Contents == SeqsUpTo(Chars, MaxLen)

RECURSIVE LStrip(_)
LStrip(q) == IF q # <<>> /\ Head(q) = " " THEN LStrip(Tail(q)) ELSE q

RECURSIVE RStrip(_)
RStrip(q) ==
    IF q # <<>> /\ q[Len(q)] = " " THEN RStrip(SubSeq(q, 1, Len(q) - 1)) ELSE q

\* A mutation of Strip: only the left end is stripped.
Strip_LeftOnly(q) == LStrip(q)

\* str.strip()
Strip(q) == RStrip(LStrip(q))

\* What the vendor's endpoint does with one request: it answers with a
\* content (kind "content"), answers without one (None), or the request
\* fails, for lack of quota or otherwise; or no API key is configured.
Responses ==
    {[kind |-> "content", content |-> c] : c \in Contents}
        \cup {[kind |-> k, content |-> <<>>] :
                 k \in {"none", "quota", "error", "unavailable"}}

NoError == [type |-> "none", quota |-> FALSE, cfg |-> 0]

Returned(value, c) == [returns |-> TRUE, value |-> value, cfg |-> c, exc |-> NoError]

Raised(type, quota, c) ==
    [returns |-> FALSE, value |-> <<>>, cfg |-> c,
     exc |-> [type |-> type, quota |-> quota, cfg |-> c]]

\* OpenAIService().generate_post_content: the constructor raises ValueError
\* without an API key; (content or "").strip() is returned, empty or not;
\* every error of the request becomes an OpenAIServiceException.
GenerateWithOpenAI(resp, c) ==
    CASE resp.kind = "unavailable" -> Raised("ValueError", FALSE, c)
      [] resp.kind = "content" -> Returned(Strip(resp.content), c)
      [] resp.kind = "none" -> Returned(Strip(<<>>), c)
      [] resp.kind = "quota" -> Raised("OpenAIServiceException", TRUE, c)
      [] OTHER -> Raised("OpenAIServiceException", FALSE, c)

\* _generate_with_gemini: a truthy text is stripped and returned, a missing
\* or empty text is "Resposta vazia do Gemini"; every error is a RuntimeError.
GenerateWithGemini(resp, c) ==
    CASE resp.kind = "content" /\ resp.content # <<>> ->
             Returned(Strip(resp.content), c)
      [] resp.kind = "quota" -> Raised("RuntimeError", TRUE, c)
      [] OTHER -> Raised("RuntimeError", FALSE, c)

\* A mutation of OnProviderError: a quota error aborts the fallback.
OnProviderError_QuotaAborts(exc) == IF exc.quota THEN "raise" ELSE "continue"

\* The three except clauses of the loop: OpenAIServiceException,
\* RuntimeError and Exception all record last_error and continue.
OnProviderError(exc) ==
    CASE exc.type = "OpenAIServiceException" -> "continue"
      [] exc.type = "RuntimeError" -> "continue"
      [] OTHER -> "continue"

NoResult == [value |-> <<>>, cfg |-> 0]

NoFailure == [kind |-> "none", count |-> 0, last |-> NoError]

GenIdleFrame ==
    [pc |-> "idle", explicit |-> 0, todo |-> <<>>, idx |-> 1, attempts |-> <<>>,
     last_error |-> NoError, result |-> NoResult, failure |-> NoFailure,
     created_default |-> FALSE]

\* _get_default_ai_config: the default row, created when there is none.
DefaultConfigId(cs) ==
    IF DefaultSet(cs) # {} THEN OrderedConfigs(cs)[1]
    ELSE CHOOSE c \in CfgIds \ ExistingSet(cs) :
            \A d \in CfgIds \ ExistingSet(cs) : c <= d

\* A mutation of WithDefaultConfig: no row is created.
WithDefaultConfig_NothingCreated(cs) == cs

WithDefaultConfig(cs) ==
    IF DefaultSet(cs) # {} THEN cs
    ELSE SaveResult(cs, [id |-> DefaultConfigId(cs), is_default |-> TRUE,
                         provider |-> "openai", model |-> "gpt"])

\* generate_image_prompt_with_fallback (image_prompt_generation.py): the
\* rows of the registry in the order of the query; an empty registry gives
\* nothing to try and the function returns None.
ImagePromptConfigsToTry(cs) == OrderedConfigs(cs)

\* generate_image_with_fallback (image_generation.py): OpenAIService, then
\* gemini_service, whatever the registry holds.
ImageProvidersToTry == <<"openai", "gemini">>

\* The providers the loop resolves for a list of configurations.
ProvidersOf(todo, cs) == [k \in 1..Len(todo) |-> ResolveProvider(cs[todo[k]])]

\* Lines 117-143: the ordered list is built; an empty list is replaced by
\* the default configuration, created on the spot.
GenBuildList ==
    /\ gen.pc = "start"
    /\ LET todo == ConfigsToTry(gen.explicit, configs)
       IN  IF todo = <<>>
           THEN /\ configs' = WithDefaultConfig(configs)
                /\ gen' = [gen EXCEPT !.pc = "loop",
                                      !.todo = <<DefaultConfigId(configs)>>,
                                      !.created_default = TRUE]
           ELSE /\ gen' = [gen EXCEPT !.pc = "loop", !.todo = todo]
                /\ UNCHANGED configs
    /\ UNCHANGED genOthers

\* One iteration of the loop of lines 146-222 on a configuration whose
\* provider is known: the provider is called, a value is returned at once,
\* an exception goes through the except clauses.
GenAttempt(resp) ==
    /\ gen.pc = "loop"
    /\ gen.idx <= Len(gen.todo)
    /\ LET c == gen.todo[gen.idx]
           provider == ResolveProvider(configs[c])
           out == IF provider = "openai" THEN GenerateWithOpenAI(resp, c)
                  ELSE GenerateWithGemini(resp, c)
       IN  /\ provider \in {"openai", "gemini"}
           /\ IF out.returns
              THEN gen' = [gen EXCEPT
                      !.pc = "returned",
                      !.attempts = Append(@, [cfg |-> c, outcome |-> "ok"]),
                      !.result = [value |-> out.value, cfg |-> c]]
              ELSE IF OnProviderError(out.exc) = "continue"
              THEN gen' = [gen EXCEPT
                      !.idx = @ + 1,
                      !.attempts = Append(@, [cfg |-> c, outcome |-> "failed"]),
                      !.last_error = out.exc]
              ELSE gen' = [gen EXCEPT
                      !.pc = "raised",
                      !.attempts = Append(@, [cfg |-> c, outcome |-> "failed"]),
                      !.failure = [kind |-> "provider", count |-> 1, last |-> out.exc]]
    /\ UNCHANGED configs
    /\ UNCHANGED genOthers

\* One iteration on a configuration whose provider is not recognised: it is
\* logged and skipped, no provider is called.
GenSkip ==
    /\ gen.pc = "loop"
    /\ gen.idx <= Len(gen.todo)
    /\ ResolveProvider(configs[gen.todo[gen.idx]]) \notin {"openai", "gemini"}
    /\ gen' = [gen EXCEPT
            !.idx = @ + 1,
            !.attempts = Append(@, [cfg |-> gen.todo[gen.idx], outcome |-> "skipped"])]
    /\ UNCHANGED configs
    /\ UNCHANGED genOthers

\* Lines 224-236: the list is exhausted; the aggregate RuntimeError names
\* len(configs_to_try) and the last error, or, without any error, says that
\* no configuration was valid.
GenExhausted ==
    /\ gen.pc = "loop"
    /\ gen.idx > Len(gen.todo)
    /\ gen' = [gen EXCEPT
            !.pc = "raised",
            !.failure = IF gen.last_error # NoError
                        THEN [kind |-> "aggregate", count |-> Len(gen.todo),
                              last |-> gen.last_error]
                        ELSE [kind |-> "no_valid_config", count |-> 0,
                              last |-> NoError]]
    /\ UNCHANGED configs
    /\ UNCHANGED genOthers

GenIdle == gen = GenIdleFrame

\* Registries the orchestrator may find: any rows, at most one default.
GenRowKinds ==
    {ConfigRow(d, "openai", "gpt") : d \in BOOLEAN}
        \cup {ConfigRow(d, "gemini", "gemini") : d \in BOOLEAN}
        \cup {ConfigRow(d, "", m) : d \in BOOLEAN, m \in {"o", "llama"}}
        \cup {ConfigRow(d, "outro", "gpt") : d \in BOOLEAN}

GenRegistries ==
    {cs \in [CfgIds -> {Absent} \cup GenRowKinds] : Cardinality(DefaultSet(cs)) <= 1}

GenInit ==
    /\ configs \in GenRegistries
    /\ savers = [s \in SaverIds |-> IdleSaver]
    /\ lastSave = NoSave
    /\ \E e \in {0} \cup ExistingSet(configs) :
          gen = [GenIdleFrame EXCEPT !.pc = "start", !.explicit = e]

(***************************************************************************)
(* publish_to_multiple_pages (tasks.py).                                   *)
(***************************************************************************)
MaxPages == 2
MaxDest == 3

PageIds == 1..MaxPages

\* page_name "Desconhecida"; a page's name is written as its id.
Desconhecida == 0

PageRows == [exists : BOOLEAN, can_publish : BOOLEAN]

\* What goes wrong while one destination is handled: nothing, update_state
\* raising, create_post raising, PublishedPost.objects.create raising.
PubFaults == {"none", "progress", "api", "record"}

PubIdleFrame ==
    [pc |-> "idle", page_ids |-> <<>>, i |-> 1, page |-> 0, success |-> <<>>,
     failed |-> <<>>, total_pages |-> 0, processed |-> 0, calls |-> <<>>,
     escaped |-> "none", created |-> <<>>, image_path |-> FALSE]

\* A mutation of PubHandler: an unexpected exception is not caught.
PubHandler_NoCatchAll(exc) ==
    CASE exc = "DoesNotExist" -> "not_found"
      [] exc = "FacebookAPIException" -> "api_outer"
      [] OTHER -> "escape"

\* The except clauses of the loop body (lines 418-442), by exception class.
PubHandler(exc) ==
    CASE exc = "DoesNotExist" -> "not_found"
      [] exc = "FacebookAPIException" -> "api_outer"
      [] OTHER -> "internal"

\* page.name if "page" in locals() else "Desconhecida"
LocalPageName(page) == IF page # 0 THEN page ELSE Desconhecida

FailedEntry(page_id, page_name, error) ==
    [page_id |-> page_id, page_name |-> page_name, error |-> error]

\* The two "continue" statements (lines 373 and 396) jump over
\* results["processed"] += 1 (line 444).
AfterContinue(processed) == processed

\* A mutation of CanPublish: the capability is not looked at.
CanPublish_Unchecked(row) == TRUE

\* Line 365: page.can_publish
CanPublish(row) == row.can_publish

\* One pass of the loop body of lines 352-444 for page_ids[i].
PubIteration(fault) ==
    /\ pub.pc = "loop"
    /\ pub.i <= Len(pub.page_ids)
    /\ LET page_id == pub.page_ids[pub.i]
           next == [pub EXCEPT !.i = @ + 1]
           caught(f, exc, nm) ==
               \* an exception reaches the except clauses of the loop body
               LET h == PubHandler(exc) IN
               IF h = "escape"
               THEN [f EXCEPT !.pc = "raised", !.escaped = exc]
               ELSE [f EXCEPT
                       !.failed = Append(@, FailedEntry(page_id,
                                    IF h = "not_found" THEN Desconhecida ELSE nm, h)),
                       !.processed = @ + 1]
       IN  /\ fault \in PubFaults
           /\ pub' =
               IF fault = "progress"
               THEN \* self.update_state raises: page is still the one of an
                    \* earlier pass, or unbound
                    caught(next, "Exception", LocalPageName(pub.page))
               ELSE IF ~pages[page_id].exists
               THEN caught(next, "DoesNotExist", Desconhecida)
               ELSE LET bound == [next EXCEPT !.page = page_id] IN
                    IF ~CanPublish(pages[page_id])
                    THEN [bound EXCEPT
                            !.failed = Append(@, FailedEntry(page_id, page_id,
                                                             "no_permission")),
                            !.processed = AfterContinue(@)]
                    ELSE LET called == [bound EXCEPT !.calls = Append(@, page_id)] IN
                         IF fault = "api"
                         THEN [called EXCEPT
                                 !.failed = Append(@, FailedEntry(page_id, page_id,
                                                                  "api")),
                                 !.processed = AfterContinue(@)]
                         ELSE IF fault = "record"
                         THEN caught(called, "Exception", LocalPageName(page_id))
                         ELSE [called EXCEPT
                                 !.success = Append(@, [page_id |-> page_id,
                                                        page_name |-> page_id]),
                                 !.processed = @ + 1]
    /\ UNCHANGED pages
    /\ UNCHANGED pubOthers

\* return results
PubReturn ==
    /\ pub.pc = "loop"
    /\ pub.i > Len(pub.page_ids)
    /\ pub' = [pub EXCEPT !.pc = "done"]
    /\ UNCHANGED pages
    /\ UNCHANGED pubOthers

PubIdle ==
    /\ pub = PubIdleFrame
    /\ pages = [p \in PageIds |-> [exists |-> FALSE, can_publish |-> FALSE]]

\* The call starts after results is built (lines 329-350): any list of page
\* ids, over any table of pages.
PubInit ==
    /\ pages \in [PageIds -> {r \in PageRows : r.can_publish => r.exists}]
    /\ \E ids \in SeqsUpTo(PageIds, MaxDest) :
          pub = [PubIdleFrame EXCEPT !.pc = "loop", !.page_ids = ids,
                                     !.total_pages = Len(ids)]

(***************************************************************************)
(* schedule_multiple_posts (tasks.py).                                     *)
(***************************************************************************)
\* What goes wrong while one destination is handled: nothing, update_state
\* raising, ScheduledPost.objects.create raising, the save of
\* generated_image_file raising.
ScheduleFaults == {"none", "progress", "create", "image"}

\* A mutation of ScheduleHandler: an unexpected exception is not caught.
ScheduleHandler_NoCatchAll(exc) ==
    CASE exc = "DoesNotExist" -> "not_found"
      [] OTHER -> "escape"

\* The except clauses of the loop body (lines 518-534), by exception class.
ScheduleHandler(exc) ==
    CASE exc = "DoesNotExist" -> "not_found"
      [] OTHER -> "internal"

\* ScheduledPost.objects.create(..., status="pending") (lines 496-504): the
\* row gets the next id.
CreatedPost(rows, page_id) ==
    [id |-> Len(rows) + 1, page |-> page_id, status |-> "pending",
     generated_image_file |-> FALSE]

\* One pass of the loop body of lines 481-536 for page_ids[i].
ScheduleIteration(fault) ==
    /\ pub.pc = "scheduling"
    /\ pub.i <= Len(pub.page_ids)
    /\ fault \in ScheduleFaults
    /\ fault = "image" => pub.image_path
    /\ LET page_id == pub.page_ids[pub.i]
           next == [pub EXCEPT !.i = @ + 1]
           caught(f, exc, nm) ==
               LET h == ScheduleHandler(exc) IN
               IF h = "escape"
               THEN [f EXCEPT !.pc = "raised", !.escaped = exc]
               ELSE [f EXCEPT
                       !.failed = Append(@, FailedEntry(page_id,
                                    IF h = "not_found" THEN Desconhecida ELSE nm, h)),
                       \* line 536 follows the try statement
                       !.processed = @ + 1]
       IN  pub' =
               IF fault = "progress"
               THEN caught(next, "Exception", LocalPageName(pub.page))
               ELSE IF ~pages[page_id].exists
               THEN caught(next, "DoesNotExist", Desconhecida)
               ELSE LET bound == [next EXCEPT !.page = page_id] IN
                    IF fault = "create"
                    THEN caught(bound, "Exception", LocalPageName(page_id))
                    ELSE LET row == CreatedPost(pub.created, page_id)
                             stored == [bound EXCEPT !.created = Append(@, row)]
                         IN  IF fault = "image"
                             THEN \* the row of line 496 stays in the table
                                  caught(stored, "Exception", LocalPageName(page_id))
                             ELSE [stored EXCEPT
                                     !.created[row.id].generated_image_file =
                                         pub.image_path,
                                     !.success = Append(@,
                                         [page_id |-> page_id, page_name |-> page_id,
                                          scheduled_post_id |-> row.id]),
                                     !.processed = @ + 1]
    /\ UNCHANGED pages
    /\ UNCHANGED pubOthers

\* return results (line 538)
ScheduleReturn ==
    /\ pub.pc = "scheduling"
    /\ pub.i > Len(pub.page_ids)
    /\ pub' = [pub EXCEPT !.pc = "done"]
    /\ UNCHANGED pages
    /\ UNCHANGED pubOthers

\* The call starts after results is built (lines 466-471): any list of page
\* ids, with or without an image path, over any table of pages.
ScheduleInit ==
    /\ pages \in [PageIds -> {r \in PageRows : r.can_publish => r.exists}]
    /\ \E ids \in SeqsUpTo(PageIds, MaxDest), img \in BOOLEAN :
          pub = [PubIdleFrame EXCEPT !.pc = "scheduling", !.page_ids = ids,
                                     !.total_pages = Len(ids),
                                     !.image_path = img]

(***************************************************************************)
(* auto_generate_and_post_content (tasks.py).                              *)
(***************************************************************************)
\* What goes wrong while one page is handled: nothing,
\* generate_text_with_fallback raising, create_post raising,
\* PublishedPost.objects.create raising.
AutoFaults == {"none", "text", "api", "record"}

\* Lines 626-628: FacebookPage.objects.filter(is_active=True,
\* auto_posting_enabled=True). The two flags are independent of
\* can_publish, so the filter may return any existing pages, each once.
ActivePageLists(pgs) ==
    {ids \in SeqsUpTo(PageIds, MaxPages) :
        /\ \A k \in 1..Len(ids) : pgs[ids[k]].exists
        /\ \A j, k \in 1..Len(ids) : ids[j] = ids[k] => j = k}

\* One pass of the loop body of lines 654-745 for the page active_pages[i]:
\* the text is generated, create_post is called, the PublishedPost row is
\* created; every exception is caught and recorded as an error.
AutoIteration(fault) ==
    /\ pub.pc = "auto"
    /\ pub.i <= Len(pub.page_ids)
    /\ fault \in AutoFaults
    /\ LET page == pub.page_ids[pub.i]
           next == [pub EXCEPT !.i = @ + 1, !.page = page]
           error(f) == [f EXCEPT !.failed =
                           Append(@, FailedEntry(page, page, "error"))]
           called == [next EXCEPT !.calls = Append(@, page)]
       IN  pub' = IF fault = "text" THEN error(next)
                  ELSE IF fault \in {"api", "record"} THEN error(called)
                  ELSE [called EXCEPT !.success =
                           Append(@, [page_id |-> page, page_name |-> page])]
    /\ UNCHANGED pages
    /\ UNCHANGED pubOthers

\* Lines 630-632 and 747-762: the task returns, at once when the filter
\* gave no page.
AutoReturn ==
    /\ pub.pc = "auto"
    /\ pub.i > Len(pub.page_ids)
    /\ pub' = [pub EXCEPT !.pc = "done"]
    /\ UNCHANGED pages
    /\ UNCHANGED pubOthers

\* The task starts with the pages its filter gives, over any table of pages.
AutoInit ==
    /\ pages \in [PageIds -> {r \in PageRows : r.can_publish => r.exists}]
    /\ \E ids \in ActivePageLists(pages) :
          pub = [PubIdleFrame EXCEPT !.pc = "auto", !.page_ids = ids,
                                     !.total_pages = Len(ids)]

(***************************************************************************)
(* The ScheduledPost lifecycle (tasks.py, approval_views.py, models.py).   *)
(***************************************************************************)
MaxPosts == 2
MaxActive == 1
MaxTime == 2
MaxSweeps == 2
MaxWorkers == 2
MaxQueued == 2

PostIds == 1..MaxPosts
SweepIds == 1..MaxSweeps
WorkerIds == 1..MaxWorkers
Times == 0..MaxTime

\* ScheduledPost.STATUS_CHOICES
Statuses ==
    {"pending", "generating", "ready", "pending_approval", "approved", "rejected",
     "publishing", "published", "failed", "cancelled"}

\* timezone.timedelta(hours=2) and timezone.timedelta(minutes=30), in units
\* of 30 minutes.
LookaheadWindow == 4
GenerateLead == 1

\* A row as ScheduledPost.objects.create(...) leaves it: status "pending",
\* the text fields blank.
NewPost(t) ==
    [status |-> "pending", scheduled_time |-> t, generated_content |-> "",
     generated_image_prompt |-> "", generated_image_file |-> "",
     error_message |-> "", requires_approval |-> FALSE]

NoPost == NewPost(0)

TaskKinds == {"generate", "publish"}

IdleSweep ==
    [pc |-> "idle", sel |-> <<>>, idx |-> 1, cur |-> NoPost, count |-> 0,
     dispatched |-> <<>>, raised |-> <<>>]

IdleWorker ==
    [pc |-> "idle", kind |-> "none", post_id |-> 0, post |-> NoPost,
     text |-> "", prompt |-> "", image |-> ""]

\* A mutation of DueFilter: claimed items are selected again.
DueFilter_Reclaims(row, t) ==
    row.status \in {"ready", "publishing"} /\ row.scheduled_time <= t

\* A mutation of DueFilter: the time filter is dropped.
DueFilter_AnyTime(row, t) == row.status = "ready"

\* filter(status="ready", scheduled_time__lte=timezone.now())
DueFilter(row, t) == row.status = "ready" /\ row.scheduled_time <= t

RECURSIVE DescByTime(_, _)
\* Meta.ordering = ["-scheduled_time"]: the ids of S, latest first (equal
\* times by id).
DescByTime(S, table) ==
    IF S = {} THEN <<>>
    ELSE LET m == CHOOSE x \in S : \A y \in S :
                     \/ table[x].scheduled_time > table[y].scheduled_time
                     \/ /\ table[x].scheduled_time = table[y].scheduled_time
                        /\ x <= y
         IN  <<m>> \o DescByTime(S \ {m}, table)

\* publish_post_task.delay / generate_content_for_post.delay
Enqueue(q, kind, p) == [q EXCEPT ![<<kind, p>>] = @ + 1]

Dequeue(q, kind, p) == [q EXCEPT ![<<kind, p>>] = @ - 1]

(* process_scheduled_posts *)

\* Runs and task executions are interchangeable: a new one takes the lowest
\* free slot.
FreeSweep ==
    IF \E s \in SweepIds : sweeps[s].pc \in {"idle", "done"}
    THEN CHOOSE s \in SweepIds :
            /\ sweeps[s].pc \in {"idle", "done"}
            /\ \A t \in SweepIds : sweeps[t].pc \in {"idle", "done"} => s <= t
    ELSE 0

FreeWorker ==
    IF \E w \in WorkerIds : workers[w].pc = "idle"
    THEN CHOOSE w \in WorkerIds :
            /\ workers[w].pc = "idle"
            /\ \A v \in WorkerIds : workers[v].pc = "idle" => w <= v
    ELSE 0

\* Lines 42-47: the queryset is evaluated when the loop starts; the run holds
\* the instances it fetched.
SweepSelect(s) ==
    /\ s = FreeSweep
    /\ LET due == {p \in PostIds : DueFilter(posts[p], now)}
           ids == DescByTime(due, posts)
       IN  sweeps' = [sweeps EXCEPT ![s] =
              [IdleSweep EXCEPT
                  !.pc = "loop",
                  !.sel = [i \in 1..Len(ids) |-> [id |-> ids[i], row |-> posts[ids[i]]]]]]
    /\ UNCHANGED <<posts, now, queue, workers, published, fbPosts, approvals>>
    /\ UNCHANGED schOthers

\* A mutation of SweepOnDispatchError: the error is swallowed without a trace.
SweepOnDispatchError_Ignored(inst) == inst

\* Lines 58-62: post.status = "failed"; post.error_message = str(e)
SweepOnDispatchError(inst) ==
    [inst EXCEPT !.status = "failed", !.error_message = "dispatch_error"]

\* A mutation of ClaimGuard: the item is claimed only while its stored status
\* is still "ready".
ClaimGuard_CompareAndSwap(row) == row.status = "ready"

\* Lines 48-51: between the selection and post.save() the stored row is not
\* read again, whatever it holds the item is claimed.
ClaimGuard(row) == TRUE

\* Lines 50-51: post.status = "publishing"; post.save() writes the whole
\* instance.
SweepStore(s) ==
    /\ sweeps[s].pc = "loop"
    /\ sweeps[s].idx <= Len(sweeps[s].sel)
    /\ LET item == sweeps[s].sel[sweeps[s].idx]
           inst == [item.row EXCEPT !.status = "publishing"]
       IN  IF ClaimGuard(posts[item.id])
           THEN /\ posts' = [posts EXCEPT ![item.id] = inst]
                /\ sweeps' = [sweeps EXCEPT ![s] =
                      [@ EXCEPT !.pc = "dispatch", !.cur = inst]]
           ELSE /\ sweeps' = [sweeps EXCEPT ![s] = [@ EXCEPT !.idx = @ + 1]]
                /\ UNCHANGED posts
    /\ UNCHANGED <<now, queue, workers, published, fbPosts, approvals>>
    /\ UNCHANGED schOthers

\* Lines 54-56: publish_post_task.delay(post.id) returns; register_task
\* swallows its own errors; processed_count += 1.
SweepDispatch(s) ==
    /\ sweeps[s].pc = "dispatch"
    /\ LET p == sweeps[s].sel[sweeps[s].idx].id
       IN  /\ queue[<<"publish", p>>] < MaxQueued
           /\ queue' = Enqueue(queue, "publish", p)
           /\ sweeps' = [sweeps EXCEPT ![s] =
                 [@ EXCEPT !.pc = "loop", !.idx = @ + 1, !.count = @ + 1,
                           !.dispatched = Append(@, p)]]
    /\ UNCHANGED <<posts, now, workers, published, fbPosts, approvals>>
    /\ UNCHANGED schOthers

\* Lines 54, 58-62: publish_post_task.delay raises (the broker is not
\* reachable); the except clause stores the failure and the loop goes on.
SweepDispatchRaises(s) ==
    /\ sweeps[s].pc = "dispatch"
    /\ LET p == sweeps[s].sel[sweeps[s].idx].id
           inst == SweepOnDispatchError(sweeps[s].cur)
       IN  /\ posts' = [posts EXCEPT ![p] = inst]
           /\ sweeps' = [sweeps EXCEPT ![s] =
                 [@ EXCEPT !.pc = "loop", !.idx = @ + 1, !.cur = inst,
                           !.raised = Append(@, p)]]
    /\ UNCHANGED <<now, queue, workers, published, fbPosts, approvals>>
    /\ UNCHANGED schOthers

\* Line 64: return f"Processados {processed_count} posts"
SweepReturn(s) ==
    /\ sweeps[s].pc = "loop"
    /\ sweeps[s].idx > Len(sweeps[s].sel)
    /\ sweeps' = [sweeps EXCEPT ![s] =
          [@ EXCEPT !.pc = "done", !.cur = NoPost,
                    !.sel = [i \in 1..Len(@) |-> [id |-> @[i].id, row |-> NoPost]]]]
    /\ UNCHANGED <<posts, now, queue, workers, published, fbPosts, approvals>>
    /\ UNCHANGED schOthers

(* schedule_content_generation *)

\* Lines 259-271: pending rows scheduled between now and now + 2 h, whose
\* time is at most 30 minutes away.
NeedsGeneration(row, t) ==
    /\ row.status = "pending"
    /\ row.scheduled_time >= t
    /\ row.scheduled_time <= t + LookaheadWindow
    /\ t >= row.scheduled_time - GenerateLead

\* Lines 256-275: the run enqueues generate_content_for_post for every row
\* it selects; it writes nothing.
ScheduleContentGeneration ==
    /\ \E p \in PostIds : NeedsGeneration(posts[p], now)
    /\ \A p \in PostIds : NeedsGeneration(posts[p], now) =>
                             queue[<<"generate", p>>] < MaxQueued
    /\ queue' = [k \in TaskKinds \X PostIds |->
                    IF k[1] = "generate" /\ NeedsGeneration(posts[k[2]], now)
                    THEN queue[k] + 1 ELSE queue[k]]
    /\ UNCHANGED <<posts, now, sweeps, workers, published, fbPosts, approvals>>
    /\ UNCHANGED schOthers

(* generate_content_for_post *)

\* Whether the name OpenAIServiceException is bound in tasks.py: the module
\* imports OpenAIService alone (lines 11-17), so it is not.
OpenAIServiceExceptionBound == FALSE

\* The except clauses of generate_content_for_post (lines 107-122), tried
\* in order for an exception raised in the try block. Evaluating the second
\* clause's class raises NameError when the name is not bound, and nothing
\* after it is reached.
GenTaskHandler(exc) ==
    IF exc = "DoesNotExist" THEN "not_found"
    ELSE IF ~OpenAIServiceExceptionBound THEN "NameError"
    ELSE "failed"

\* Lines 71-78: the row is loaded, post.status = "generating", post.save().
TaskGenStart(w, p) ==
    /\ w = FreeWorker
    /\ queue[<<"generate", p>>] > 0
    /\ queue' = Dequeue(queue, "generate", p)
    /\ LET inst == [posts[p] EXCEPT !.status = "generating"]
       IN  /\ posts' = [posts EXCEPT ![p] = inst]
           /\ workers' = [workers EXCEPT ![w] =
                 [IdleWorker EXCEPT !.pc = "generating", !.kind = "generate",
                                    !.post_id = p, !.post = inst]]
    /\ UNCHANGED <<now, sweeps, published, fbPosts, approvals>>
    /\ UNCHANGED schOthers

\* What generate_text_with_fallback does for the task: a text, an empty
\* text, or the aggregate RuntimeError.
TextOutcomes == {"text", "", "raises"}

\* What generate_image_prompt_with_fallback returns: a prompt or None (always
\* None for an empty content).
PromptOutcomes == {"prompt", "None"}

\* Lines 93-96: the two fallback calls; nothing is stored yet.
TaskGenGenerate(w, text, prompt) ==
    /\ workers[w].pc = "generating"
    /\ text \in TextOutcomes
    /\ prompt \in PromptOutcomes
    /\ text # "text" => prompt = "None"
    /\ workers' = [workers EXCEPT ![w] =
          [@ EXCEPT !.pc = "generated", !.text = text, !.prompt = prompt]]
    /\ UNCHANGED <<posts, now, queue, sweeps, published, fbPosts, approvals>>
    /\ UNCHANGED schOthers

\* A mutation of GenTaskSaved: the text is stored, the status is not.
GenTaskSaved_StatusKept(inst, text, prompt) ==
    [inst EXCEPT !.generated_content = text, !.generated_image_prompt = prompt]

\* Lines 99-101: the instance the task saves.
GenTaskSaved(inst, text, prompt) ==
    [inst EXCEPT !.generated_content = text, !.generated_image_prompt = prompt,
                 !.status = "ready"]

\* Lines 99-122: the whole instance is saved with status "ready";
\* generated_image_prompt is a TextField without null=True, so saving None
\* raises IntegrityError. An exception of the try block goes through the
\* except clauses.
TaskGenEnd(w) ==
    /\ workers[w].pc = "generated"
    /\ LET p == workers[w].post_id
           text == workers[w].text
           inst == GenTaskSaved(workers[w].post, text, workers[w].prompt)
           exc == IF text = "raises" THEN "RuntimeError"
                  ELSE IF workers[w].prompt = "None" THEN "IntegrityError"
                  ELSE "none"
           failing == IF text = "raises" THEN workers[w].post ELSE inst
       IN  IF exc = "none"
           THEN posts' = [posts EXCEPT ![p] = inst]
           ELSE IF GenTaskHandler(exc) = "failed"
                   /\ failing.generated_image_prompt # "None"
           THEN posts' = [posts EXCEPT ![p] =
                   [failing EXCEPT !.status = "failed", !.error_message = "ia_error"]]
           ELSE UNCHANGED posts
    /\ workers' = [workers EXCEPT ![w] = IdleWorker]
    /\ UNCHANGED <<now, queue, sweeps, published, fbPosts, approvals>>
    /\ UNCHANGED schOthers

(* publish_post_task *)

\* Lines 129-132, 203-208: the row is loaded; without generated content the
\* ValueError is caught, the status becomes "failed" and the instance is
\* saved.
TaskPubStart(w, p) ==
    /\ w = FreeWorker
    /\ queue[<<"publish", p>>] > 0
    /\ queue' = Dequeue(queue, "publish", p)
    /\ IF posts[p].generated_content = ""
       THEN /\ posts' = [posts EXCEPT ![p] =
                   [@ EXCEPT !.status = "failed", !.error_message = "no_content"]]
            /\ UNCHANGED workers
       ELSE /\ workers' = [workers EXCEPT ![w] =
                   [IdleWorker EXCEPT !.pc = "publishing", !.kind = "publish",
                                      !.post_id = p, !.post = posts[p]]]
            /\ UNCHANGED posts
    /\ UNCHANGED <<now, sweeps, published, fbPosts, approvals>>
    /\ UNCHANGED schOthers

\* What generate_image_with_fallback does: it returns the path of a file
\* under MEDIA_ROOT or None (every provider failed); or the call raises.
ImageOutcomes == {"file", "None", "raises"}

\* A mutation of OnImageError: the exception is not caught.
OnImageError_Propagates(exc) == "raise"

\* Lines 152-153: except Exception as img_err: logger.warning(...)
OnImageError(exc) == "ignore"

\* Lines 140-153: with an image prompt the image is generated; a path under
\* MEDIA_ROOT is stored with save(update_fields=["generated_image_file"]);
\* an exception is logged and the task goes on without an image.
TaskPubImage(w, img) ==
    /\ workers[w].pc = "publishing"
    /\ img \in ImageOutcomes
    /\ workers[w].post.generated_image_prompt = "" => img = "None"
    /\ LET p == workers[w].post_id
           inst == workers[w].post
       IN  IF img = "file"
           THEN /\ posts' = [posts EXCEPT ![p] =
                       [@ EXCEPT !.generated_image_file = "file"]]
                /\ workers' = [workers EXCEPT ![w] =
                       [@ EXCEPT !.pc = "imaged", !.image = "file",
                                 !.post = [inst EXCEPT !.generated_image_file = "file"]]]
           ELSE IF img = "raises" /\ OnImageError("Exception") = "raise"
           THEN /\ posts' = [posts EXCEPT ![p] =
                       [inst EXCEPT !.status = "failed",
                                    !.error_message = "image_error"]]
                /\ workers' = [workers EXCEPT ![w] = IdleWorker]
           ELSE /\ workers' = [workers EXCEPT ![w] =
                       [@ EXCEPT !.pc = "imaged", !.image = "None"]]
                /\ UNCHANGED posts
    /\ UNCHANGED <<now, queue, sweeps, published, fbPosts, approvals>>
    /\ UNCHANGED schOthers

\* What facebook_client.create_post does: it returns, raises
\* FacebookAPIException, or raises something else.
FacebookOutcomes == {"ok", "api_error", "error"}

\* Lines 155-208: create_post, then status "published" is saved, then the
\* PublishedPost row is created; scheduled_post is a OneToOneField, so a
\* second row for the same post raises IntegrityError. Every exception ends
\* in status "failed", saved.
TaskPubFinish(w, fb) ==
    /\ workers[w].pc = "imaged"
    /\ fb \in FacebookOutcomes
    /\ LET p == workers[w].post_id
           inst == workers[w].post
       IN  IF fb # "ok"
           THEN /\ posts' = [posts EXCEPT ![p] =
                       [inst EXCEPT !.status = "failed",
                                    !.error_message = IF fb = "api_error"
                                                      THEN "facebook_error"
                                                      ELSE "error"]]
                /\ UNCHANGED <<published, fbPosts>>
           ELSE /\ fbPosts' = [fbPosts EXCEPT ![p] = 1]
                /\ IF published[p] = 0
                   THEN /\ posts' = [posts EXCEPT ![p] =
                               [inst EXCEPT !.status = "published"]]
                        /\ published' = [published EXCEPT ![p] = 1]
                   ELSE /\ posts' = [posts EXCEPT ![p] =
                               [inst EXCEPT !.status = "failed",
                                            !.error_message = "integrity_error"]]
                        /\ UNCHANGED published
    /\ workers' = [workers EXCEPT ![w] = IdleWorker]
    /\ UNCHANGED <<now, queue, sweeps, approvals>>
    /\ UNCHANGED schOthers

(* approval_views.py *)

\* approve_post: only a post that is "pending_approval"; it becomes "ready".
ApprovePost(p) ==
    /\ posts[p].status = "pending_approval"
    /\ posts' = [posts EXCEPT ![p] = [@ EXCEPT !.status = "ready"]]
    /\ approvals' = approvals \cup {p}
    /\ UNCHANGED <<now, queue, sweeps, workers, published, fbPosts>>
    /\ UNCHANGED schOthers

\* reject_post with a reason: only a post that is "pending_approval".
RejectPost(p) ==
    /\ posts[p].status = "pending_approval"
    /\ posts' = [posts EXCEPT ![p] = [@ EXCEPT !.status = "rejected"]]
    /\ UNCHANGED <<now, queue, sweeps, workers, published, fbPosts, approvals>>
    /\ UNCHANGED schOthers

\* The statuses from which request_approval goes on (line 107).
ApprovalRequestable == {"pending", "ready", "rejected"}

\* request_approval by the post's creator or a staff user.
RequestApproval(p) ==
    /\ posts[p].status \in ApprovalRequestable
    /\ posts' = [posts EXCEPT ![p] =
            [@ EXCEPT !.requires_approval = TRUE, !.status = "pending_approval"]]
    /\ UNCHANGED <<now, queue, sweeps, workers, published, fbPosts, approvals>>
    /\ UNCHANGED schOthers

(* admin.py *)

\* A mutation of AdminStatusChoices: the form does not offer "cancelled".
AdminStatusChoices_NoCancelled == Statuses \ {"cancelled"}

\* ScheduledPostAdmin lists "status" in its fieldsets and not in
\* readonly_fields: the change form offers every entry of STATUS_CHOICES.
AdminStatusChoices == Statuses

\* A staff user saves the change form of a post with the status st; the
\* fields the form does not show keep their values.
AdminChangeStatus(p, st) ==
    /\ st \in AdminStatusChoices
    /\ posts' = [posts EXCEPT ![p] = [@ EXCEPT !.status = st]]
    /\ UNCHANGED <<now, queue, sweeps, workers, published, fbPosts, approvals>>
    /\ UNCHANGED schOthers

\* Time passes.
Tick ==
    /\ now < MaxTime
    /\ now' = now + 1
    /\ UNCHANGED <<posts, queue, sweeps, workers, published, fbPosts, approvals>>
    /\ UNCHANGED schOthers

SchIdle ==
    /\ posts = [p \in PostIds |-> NoPost]
    /\ now = 0
    /\ queue = [k \in TaskKinds \X PostIds |-> 0]
    /\ sweeps = [s \in SweepIds |-> IdleSweep]
    /\ workers = [w \in WorkerIds |-> IdleWorker]
    /\ published = [p \in PostIds |-> 0]
    /\ fbPosts = [p \in PostIds |-> 0]
    /\ approvals = {}

\* A row an administrator has cancelled: no operation selects it.
CancelledPost == [NewPost(0) EXCEPT !.status = "cancelled"]

\* The lifecycle of new posts: the first MaxActive rows are as they are
\* created (pending, scheduled at any time), the other rows are cancelled.
SchInit ==
    /\ posts \in [PostIds -> {NewPost(t) : t \in Times} \cup {CancelledPost}]
    /\ \A p \in PostIds : posts[p].status = "pending" <=> p <= MaxActive
    /\ now = 0
    /\ queue = [k \in TaskKinds \X PostIds |-> 0]
    /\ sweeps = [s \in SweepIds |-> IdleSweep]
    /\ workers = [w \in WorkerIds |-> IdleWorker]
    /\ published = [p \in PostIds |-> 0]
    /\ fbPosts = [p \in PostIds |-> 0]
    /\ approvals = {}

\* Posts as they are created, before the administration site and the
\* approval views act on them.
AdminInit ==
    /\ posts \in [PostIds -> {NewPost(t) : t \in Times}]
    /\ now = 0
    /\ queue = [k \in TaskKinds \X PostIds |-> 0]
    /\ sweeps = [s \in SweepIds |-> IdleSweep]
    /\ workers = [w \in WorkerIds |-> IdleWorker]
    /\ published = [p \in PostIds |-> 0]
    /\ fbPosts = [p \in PostIds |-> 0]
    /\ approvals = {}

\* Posts as schedule_multiple_posts creates them: pending, with the
\* scheduled_time the caller gave, which nothing compares with the clock
\* (tasks.py 464, 496-504); the other rows are cancelled.
CreatedInit ==
    /\ posts \in [PostIds -> {NewPost(t) : t \in Times} \cup {CancelledPost}]
    /\ \A p \in PostIds : posts[p].status = "pending" <=> p <= MaxActive
    /\ now \in Times
    /\ queue = [k \in TaskKinds \X PostIds |-> 0]
    /\ sweeps = [s \in SweepIds |-> IdleSweep]
    /\ workers = [w \in WorkerIds |-> IdleWorker]
    /\ published = [p \in PostIds |-> 0]
    /\ fbPosts = [p \in PostIds |-> 0]
    /\ approvals = {}

\* Rows a sweep may meet, scheduled at any time: a new post, a generated
\* post, a generated post waiting for approval.
SweepRows ==
    {[NewPost(t) EXCEPT !.status = "pending"] : t \in Times}
    \cup {[NewPost(t) EXCEPT !.status = st, !.generated_content = "text",
                             !.generated_image_prompt = "prompt"] :
             t \in Times, st \in {"ready", "pending_approval"}}

SweepInit ==
    /\ posts \in [PostIds -> SweepRows]
    /\ now = 0
    /\ queue = [k \in TaskKinds \X PostIds |-> 0]
    /\ sweeps = [s \in SweepIds |-> IdleSweep]
    /\ workers = [w \in WorkerIds |-> IdleWorker]
    /\ published = [p \in PostIds |-> 0]
    /\ fbPosts = [p \in PostIds |-> 0]
    /\ approvals = {}

(***************************************************************************)
(* FacebookAPIClient (services/facebook_api.py).                           *)
(***************************************************************************)
\* The callers of _make_request modelled here.
ApiCallers == {"validate_access_token", "get_page_info"}

\* What requests.get does: it returns a response or raises. "Exception" is
\* any exception outside the requests hierarchy.
RequestOutcomes == {"response", "ConnectionError", "Timeout", "Exception"}

HttpStatuses == {200, 400, 500}

\* A response body: a JSON object with some of these keys, or no JSON at all.
Bodies ==
    {b \in [json : BOOLEAN, keys : SUBSET {"id", "name", "error"}] :
        ~b.json => b.keys = {}}

\* What response.json() raises on a body that is no JSON: the requests
\* JSONDecodeError, a RequestException, or the ValueError of older releases.
JsonErrors == {"JSONDecodeError", "ValueError"}

\* The classes below requests.exceptions.RequestException.
IsRequestException(exc) ==
    exc \in {"ConnectionError", "Timeout", "HTTPError", "JSONDecodeError"}

NoBody == [json |-> FALSE, keys |-> {}]

ApiIdleFrame ==
    [pc |-> "idle", caller |-> "", status |-> 0, body |-> NoBody, exc |-> "none",
     failed |-> FALSE, result |-> "none"]

\* Line 30: requests.get(url, params=data).
ApiRequest(out, status, body) ==
    /\ api.pc = "request"
    /\ out \in RequestOutcomes
    /\ api' = IF out = "response"
              THEN [api EXCEPT !.pc = "responded", !.status = status, !.body = body]
              ELSE [api EXCEPT !.pc = "raising", !.exc = out, !.failed = TRUE]
    /\ UNCHANGED apiOthers

\* Line 39: response.raise_for_status().
ApiRaiseForStatus ==
    /\ api.pc = "responded"
    /\ api' = IF api.status >= 400
              THEN [api EXCEPT !.pc = "raising", !.exc = "HTTPError", !.failed = TRUE]
              ELSE [api EXCEPT !.pc = "parsing"]
    /\ UNCHANGED apiOthers

\* Line 40: return response.json().
ApiJson(err) ==
    /\ api.pc = "parsing"
    /\ err \in JsonErrors
    /\ api' = IF api.body.json
              THEN [api EXCEPT !.pc = "parsed"]
              ELSE [api EXCEPT !.pc = "raising", !.exc = err, !.failed = TRUE]
    /\ UNCHANGED apiOthers

\* Lines 42-44: except requests.exceptions.RequestException turns the
\* exception into FacebookAPIException; any other exception leaves
\* _make_request as it is.
ApiExcept ==
    /\ api.pc = "raising"
    /\ api' = [api EXCEPT !.pc = "propagating",
                          !.exc = IF IsRequestException(api.exc)
                                  THEN "FacebookAPIException" ELSE api.exc]
    /\ UNCHANGED apiOthers

\* Line 141: except FacebookAPIException.
ValidateCatches(exc) == exc = "FacebookAPIException"

\* _make_request has returned the parsed body to its caller: line 140
\* ("id" in result) or line 51.
ApiCallerReturns ==
    /\ api.pc = "parsed"
    /\ api' = [api EXCEPT
            !.pc = "returned",
            !.result = IF api.caller = "validate_access_token"
                       THEN IF "id" \in api.body.keys THEN "True" ELSE "False"
                       ELSE "body"]
    /\ UNCHANGED apiOthers

\* _make_request has raised: validate_access_token returns False for the
\* exception it catches (lines 141-142); anything else leaves the caller.
ApiCallerExcept ==
    /\ api.pc = "propagating"
    /\ api' = IF api.caller = "validate_access_token" /\ ValidateCatches(api.exc)
              THEN [api EXCEPT !.pc = "returned", !.result = "False"]
              ELSE [api EXCEPT !.pc = "raised"]
    /\ UNCHANGED apiOthers

ApiIdle == api = ApiIdleFrame

ApiInit ==
    \E c \in ApiCallers : api = [ApiIdleFrame EXCEPT !.pc = "request", !.caller = c]

(***************************************************************************)
(* The specifications.                                                     *)
(***************************************************************************)
\* AIConfiguration.save, one call at a time.
CfgNext == \E inst \in Instances : SaveConfig(inst)

CfgStart == CfgInit /\ GenIdle /\ PubIdle /\ SchIdle /\ ApiIdle

SpecCfg == CfgStart /\ [][CfgNext]_vars

\* AIConfiguration.save in workers that run side by side.
CfgConcNext ==
    \/ \E s \in SaverIds, inst \in Instances : SaveUpdate(s, inst)
    \/ \E s \in SaverIds : SaveWrite(s)

SpecCfgConc == CfgStart /\ [][CfgConcNext]_vars

\* One call of generate_text_with_fallback.
GenNext ==
    \/ GenBuildList
    \/ \E resp \in Responses : GenAttempt(resp)
    \/ GenSkip
    \/ GenExhausted

GenStart == GenInit /\ PubIdle /\ SchIdle /\ ApiIdle

SpecGen == GenStart /\ [][GenNext]_vars

\* One call of publish_to_multiple_pages.
PubNext ==
    \/ \E fault \in PubFaults : PubIteration(fault)
    \/ PubReturn

PubStart == CfgIdle /\ GenIdle /\ PubInit /\ SchIdle /\ ApiIdle

SpecPub == PubStart /\ [][PubNext]_vars

\* One call of schedule_multiple_posts.
ScheduleNext ==
    \/ \E fault \in ScheduleFaults : ScheduleIteration(fault)
    \/ ScheduleReturn

ScheduleStart == CfgIdle /\ GenIdle /\ ScheduleInit /\ SchIdle /\ ApiIdle

SpecSchedule == ScheduleStart /\ [][ScheduleNext]_vars

\* One call of validate_access_token or get_page_info.
ApiNext ==
    \/ \E out \in RequestOutcomes, st \in HttpStatuses, b \in Bodies :
          ApiRequest(out, st, b)
    \/ ApiRaiseForStatus
    \/ \E err \in JsonErrors : ApiJson(err)
    \/ ApiExcept
    \/ ApiCallerReturns
    \/ ApiCallerExcept

ApiStart == CfgIdle /\ GenIdle /\ PubIdle /\ SchIdle /\ ApiInit

SpecApi == ApiStart /\ [][ApiNext]_vars

\* One run of auto_generate_and_post_content.
AutoNext ==
    \/ \E fault \in AutoFaults : AutoIteration(fault)
    \/ AutoReturn

AutoStart == CfgIdle /\ GenIdle /\ AutoInit /\ SchIdle /\ ApiIdle

SpecAuto == AutoStart /\ [][AutoNext]_vars

\* Runs of process_scheduled_posts over a table of posts, beside the approval
\* views.
SweepNext ==
    \/ \E s \in SweepIds : SweepSelect(s)
    \/ \E s \in SweepIds : SweepStore(s)
    \/ \E s \in SweepIds : SweepDispatch(s)
    \/ \E s \in SweepIds : SweepDispatchRaises(s)
    \/ \E s \in SweepIds : SweepReturn(s)
    \/ \E p \in PostIds : ApprovePost(p)
    \/ \E p \in PostIds : RequestApproval(p)
    \/ Tick

SweepStart == CfgIdle /\ GenIdle /\ PubIdle /\ SweepInit /\ ApiIdle

SpecSweep == SweepStart /\ [][SweepNext]_vars

\* The administration site and the approval views on a table of posts.
AdminNext ==
    \/ \E p \in PostIds, st \in Statuses : AdminChangeStatus(p, st)
    \/ \E p \in PostIds : ApprovePost(p)
    \/ \E p \in PostIds : RejectPost(p)
    \/ \E p \in PostIds : RequestApproval(p)

AdminStart == CfgIdle /\ GenIdle /\ PubIdle /\ AdminInit /\ ApiIdle

SpecAdmin == AdminStart /\ [][AdminNext]_vars

\* Content generation for newly created posts: the periodic run of
\* schedule_content_generation and the generation tasks, while time passes.
DispatchNext ==
    \/ ScheduleContentGeneration
    \/ \E w \in WorkerIds, p \in PostIds : TaskGenStart(w, p)
    \/ \E w \in WorkerIds, text \in TextOutcomes, prompt \in PromptOutcomes :
          TaskGenGenerate(w, text, prompt)
    \/ \E w \in WorkerIds : TaskGenEnd(w)
    \/ Tick

DispatchStart == CfgIdle /\ GenIdle /\ PubIdle /\ CreatedInit /\ ApiIdle

\* The run is periodic and the workers take every task: a run that has
\* something to dispatch happens, a queued task is started, a started task
\* goes on to its end.
DispatchFairness ==
    /\ SF_vars(ScheduleContentGeneration)
    /\ WF_vars(\E w \in WorkerIds, p \in PostIds : TaskGenStart(w, p))
    /\ WF_vars(\E w \in WorkerIds, text \in TextOutcomes, prompt \in PromptOutcomes :
                  TaskGenGenerate(w, text, prompt))
    /\ WF_vars(\E w \in WorkerIds : TaskGenEnd(w))
    /\ WF_vars(Tick)

SpecDispatch == DispatchStart /\ [][DispatchNext]_vars /\ DispatchFairness

\* No run of process_scheduled_posts is under way.
NoSweepRunning == \A s \in SweepIds : sweeps[s].pc \in {"idle", "done"}

\* A run of process_scheduled_posts that starts when no other is under way.
SweepSelectAlone(s) == NoSweepRunning /\ SweepSelect(s)

\* The scheduled posts: the sweeps (one at a time here, overlapping ones are
\* in SpecSweep), the tasks and the approval views.
SchNext ==
    \/ \E s \in SweepIds : SweepSelectAlone(s)
    \/ \E s \in SweepIds : SweepStore(s)
    \/ \E s \in SweepIds : SweepDispatch(s)
    \/ \E s \in SweepIds : SweepDispatchRaises(s)
    \/ \E s \in SweepIds : SweepReturn(s)
    \/ ScheduleContentGeneration
    \/ \E w \in WorkerIds, p \in PostIds : TaskGenStart(w, p)
    \/ \E w \in WorkerIds, text \in TextOutcomes, prompt \in PromptOutcomes :
          TaskGenGenerate(w, text, prompt)
    \/ \E w \in WorkerIds : TaskGenEnd(w)
    \/ \E w \in WorkerIds, p \in PostIds : TaskPubStart(w, p)
    \/ \E w \in WorkerIds, img \in ImageOutcomes : TaskPubImage(w, img)
    \/ \E w \in WorkerIds, fb \in FacebookOutcomes : TaskPubFinish(w, fb)
    \/ \E p \in PostIds : ApprovePost(p)
    \/ \E p \in PostIds : RejectPost(p)
    \/ \E p \in PostIds : RequestApproval(p)
    \/ Tick

SchStart == CfgIdle /\ GenIdle /\ PubIdle /\ SchInit /\ ApiIdle

SpecSched == SchStart /\ [][SchNext]_vars

(***************************************************************************)
(* Properties of generate_text_with_fallback (SpecGen).                    *)
(***************************************************************************)
\* C1: when the call returns, the value is that of the first configuration
\* in order whose provider call succeeded: the configurations before it were
\* tried in order and failed or were skipped, none after it was called, and
\* nothing was raised. A failure of a provider call, quota errors included,
\* only moves the loop to the next configuration: the call raises only after
\* every configuration of the list was gone through without a success.
C1_FirstSuccessReturned ==
    LET n == Len(gen.attempts) IN
    /\ n <= Len(gen.todo)
    /\ \A i \in 1..n : gen.attempts[i].cfg = gen.todo[i]
    /\ gen.pc = "returned" =>
          /\ n >= 1
          /\ gen.attempts[n].outcome = "ok"
          /\ \A i \in 1..(n - 1) : gen.attempts[i].outcome \in {"failed", "skipped"}
          /\ gen.result.cfg = gen.todo[n]
          /\ gen.failure = NoFailure
    /\ gen.pc \in {"loop", "raised"} =>
          \A i \in 1..n : gen.attempts[i].outcome \in {"failed", "skipped"}
    /\ gen.pc = "raised" =>
          /\ n = Len(gen.todo)
          /\ gen.failure.kind \in {"aggregate", "no_valid_config"}

\* C1, its case: the call returned the second configuration's text after the
\* first one failed on quota, and a third configuration was never called.
C1_Witness ==
    /\ gen.pc = "returned"
    /\ Len(gen.attempts) = 2
    /\ gen.attempts[1].outcome = "failed"
    /\ gen.last_error.quota
    /\ Len(gen.todo) = 3
    /\ gen.result.value = <<"a">>

(***************************************************************************)
(* Properties of publish_to_multiple_pages (SpecPub).                      *)
(***************************************************************************)
\* The entries of a result list for one page id.
EntriesFor(list, x) == Cardinality({k \in 1..Len(list) : list[k].page_id = x})

\* The positions of page_ids before position i that hold page id x.
HandledFor(x) == Cardinality({k \in 1..(pub.i - 1) : pub.page_ids[k] = x})

\* C2: no exception leaves the loop body, so the loop reaches every
\* destination; every destination handled so far has exactly one entry, in
\* success or in failed, and when the call returns every destination has
\* been handled.
C2_EveryDestinationSettled ==
    /\ pub.pc # "raised"
    /\ pub.escaped = "none"
    /\ pub.pc \in {"loop", "done"} =>
          /\ Len(pub.success) + Len(pub.failed) = pub.i - 1
          /\ \A x \in PageIds :
                EntriesFor(pub.success, x) + EntriesFor(pub.failed, x) = HandledFor(x)
    /\ pub.pc = "done" => pub.i = Len(pub.page_ids) + 1

\* C2, its case: a call over three destinations returned with a success
\* after an unexpected exception and a page that was not found.
C2_Witness ==
    /\ pub.pc = "done"
    /\ Len(pub.page_ids) = 3
    /\ Len(pub.failed) = 2
    /\ pub.failed[1].error = "internal"
    /\ pub.failed[2].error = "not_found"
    /\ Len(pub.success) = 1

\* C8: when the call returns, processed equals total_pages and equals the
\* number of entries of success plus the number of entries of failed.
C8_ProcessedCountsEveryDestination ==
    pub.pc = "done" =>
        /\ pub.processed = pub.total_pages
        /\ pub.processed = Len(pub.success) + Len(pub.failed)

(***************************************************************************)
(* Properties of AIConfiguration.save (SpecCfg, SpecCfgConc).              *)
(***************************************************************************)
\* C6: with save calls executed one at a time, at most one configuration is
\* the default; after a configuration is saved with is_default set it is the
\* only default; saving it again with is_default set leaves the registry as
\* it was.
C6_SingleDefaultSequential ==
    /\ [](/\ Cardinality(DefaultSet(configs)) <= 1
          /\ (lastSave # NoSave /\ lastSave.is_default) =>
                DefaultSet(configs) = {lastSave.id})
    /\ [][(lastSave # NoSave /\ lastSave.is_default /\ lastSave' = lastSave) =>
              configs' = configs]_vars

\* C6, its case: a configuration was saved as default while another
\* configuration exists, and the saved one is the only default.
C6_Witness ==
    /\ lastSave # NoSave
    /\ lastSave.is_default
    /\ DefaultSet(configs) = {lastSave.id}
    /\ Cardinality(ExistingSet(configs)) >= 2

\* C7: once the save calls running side by side have all finished, at most
\* one configuration is the default.
C7_SingleDefaultConcurrent ==
    (\A s \in SaverIds : savers[s].pc = "idle") =>
        Cardinality(DefaultSet(configs)) <= 1

(***************************************************************************)
(* Properties of process_scheduled_posts (SpecSweep).                      *)
(***************************************************************************)
\* A run of process_scheduled_posts is inside its loop.
InLoop(f) == f.pc \in {"loop", "dispatch"}

\* C4: a run selects only rows that are "ready" and scheduled at or before
\* the current time, and keeps that selection; a publish task is enqueued
\* only by a run, for the selected item it is at, after the run has stored
\* status "publishing" on that item.
C4_OnlyDueItemsDispatched ==
    [][/\ \A s \in SweepIds :
             (~InLoop(sweeps[s]) /\ InLoop(sweeps'[s])) =>
                 \A i \in 1..Len(sweeps'[s].sel) :
                     LET item == sweeps'[s].sel[i] IN
                     /\ item.row = posts[item.id]
                     /\ posts[item.id].status = "ready"
                     /\ posts[item.id].scheduled_time <= now
       /\ \A s \in SweepIds :
             (InLoop(sweeps[s]) /\ InLoop(sweeps'[s])) => sweeps'[s].sel = sweeps[s].sel
       /\ \A s \in SweepIds :
             (sweeps[s].pc = "loop" /\ sweeps'[s].pc = "dispatch") =>
                 posts'[sweeps[s].sel[sweeps[s].idx].id].status = "publishing"
       /\ \A p \in PostIds :
             queue'[<<"publish", p>>] > queue[<<"publish", p>>] =>
                 \E s \in SweepIds :
                     /\ sweeps[s].pc = "dispatch"
                     /\ sweeps[s].sel[sweeps[s].idx].id = p
                     /\ sweeps[s].sel[sweeps[s].idx].row.status = "ready"
                     /\ sweeps[s].cur.status = "publishing"]_vars

\* C4, its case: a run has dispatched the one due item and returned, while
\* the other post is ready but scheduled later and was left alone.
C4_Witness ==
    \E s \in SweepIds, p \in PostIds :
        /\ sweeps[s].pc = "done"
        /\ Len(sweeps[s].sel) = 1
        /\ Len(sweeps[s].dispatched) = 1
        /\ sweeps[s].sel[1].id # p
        /\ posts[p].status = "ready"
        /\ posts[p].scheduled_time > now
        /\ queue[<<"publish", p>>] = 0

\* C5: a dispatch that raises does not end the run: when the run returns it
\* has gone through every selected item, its count is the number of items
\* dispatched without error, and the step on which a dispatch raises leaves
\* the item "failed" with the error in error_message.
C5_DispatchErrorsContained ==
    /\ [](\A s \in SweepIds :
             /\ sweeps[s].count = Len(sweeps[s].dispatched)
             /\ sweeps[s].pc \in {"loop", "dispatch", "done"} =>
                   Len(sweeps[s].dispatched) + Len(sweeps[s].raised)
                       = sweeps[s].idx - 1
             /\ sweeps[s].pc = "done" => sweeps[s].idx = Len(sweeps[s].sel) + 1)
    /\ [][\A s \in SweepIds :
             Len(sweeps'[s].raised) > Len(sweeps[s].raised) /\ sweeps[s].pc = "dispatch" =>
                 LET p == sweeps[s].sel[sweeps[s].idx].id IN
                 /\ posts'[p].status = "failed"
                 /\ posts'[p].error_message = "dispatch_error"]_vars

\* C5, its case: a run over two due items has returned; the dispatch of the
\* first raised and left it failed, the second was dispatched and counted.
C5_Witness ==
    \E s \in SweepIds :
        /\ sweeps[s].pc = "done"
        /\ Len(sweeps[s].sel) = 2
        /\ sweeps[s].raised = <<sweeps[s].sel[1].id>>
        /\ sweeps[s].dispatched = <<sweeps[s].sel[2].id>>
        /\ sweeps[s].count = 1
        /\ posts[sweeps[s].sel[1].id].status = "failed"
        /\ posts[sweeps[s].sel[1].id].error_message = "dispatch_error"

(***************************************************************************)
(* Properties of the ScheduledPost lifecycle (SpecSched).                  *)
(***************************************************************************)
\* C3: when generate_content_for_post ends after the text generation failed
\* for every configuration, the post is "failed" and its error_message holds
\* the aggregate error; it is not left "generating".
C3_TextFailureMarksFailed ==
    [][\A w \in WorkerIds :
          (/\ workers[w].pc = "generated"
           /\ workers[w].text = "raises"
           /\ workers'[w].pc = "idle") =>
              /\ posts'[workers[w].post_id].status = "failed"
              /\ posts'[workers[w].post_id].error_message = "ia_error"]_vars

\* The edges of pending -> generating -> ready [-> pending_approval ->
\* approved | rejected] -> publishing -> published | failed, and the failure
\* of the generation.
SpecEdges ==
    {<<"pending", "generating">>, <<"generating", "ready">>,
     <<"generating", "failed">>,
     <<"ready", "pending_approval">>, <<"pending_approval", "approved">>,
     <<"pending_approval", "rejected">>, <<"approved", "publishing">>,
     <<"ready", "publishing">>, <<"publishing", "published">>,
     <<"publishing", "failed">>}

\* C9: every change of a post's status is an edge of the state machine.
C9_StatusChangesAreEdges ==
    [][\A p \in PostIds :
          posts'[p].status # posts[p].status =>
              <<posts[p].status, posts'[p].status>> \in SpecEdges]_vars

TerminalStatuses == {"published", "failed", "cancelled", "rejected"}

\* C10: a post that is published, failed, cancelled or rejected keeps its
\* status.
C10_TerminalStatusesStay ==
    [][\A p \in PostIds :
          posts[p].status \in TerminalStatuses =>
              posts'[p].status = posts[p].status]_vars

\* C11: create_post is not called for a post whose requires_approval is set
\* unless approve_post has been applied to it, and only the approval views
\* take a post out of "pending_approval": no sweep and no task changes the
\* status of a post that waits for approval.
C11_NoPublishWithoutApproval ==
    [][/\ \A w \in WorkerIds :
             LET p == workers[w].post_id IN
             (/\ workers[w].pc = "imaged"
              /\ workers'[w].pc = "idle"
              /\ posts[p].requires_approval
              /\ \/ posts'[p].status = "published"
                 \/ posts'[p].error_message = "integrity_error") =>
                 p \in approvals
       /\ \A p \in PostIds :
             (/\ posts[p].status = "pending_approval"
              /\ posts'[p].status # "pending_approval") =>
                 /\ workers' = workers
                 /\ sweeps' = sweeps]_vars

\* C12: a value the call returns is a non-empty text without a blank at
\* either end.
C12_ReturnedTextNonEmptyStripped ==
    gen.pc = "returned" =>
        /\ gen.result.value # <<>>
        /\ Head(gen.result.value) # " "
        /\ gen.result.value[Len(gen.result.value)] # " "

\* The configurations on which a provider was called.
Called == {i \in 1..Len(gen.attempts) : gen.attempts[i].outcome # "skipped"}

\* C13: when the call raises after a provider was called, the error is the
\* aggregate one, it carries the last underlying error, and the count it
\* states is the number of configurations on which a provider was called.
C13_AggregateCountsAttempts ==
    (gen.pc = "raised" /\ Called # {}) =>
        /\ gen.failure.kind = "aggregate"
        /\ gen.failure.last = gen.last_error
        /\ gen.failure.last.cfg = gen.attempts[CHOOSE i \in Called :
                                                  \A j \in Called : j <= i].cfg
        /\ gen.failure.count = Cardinality(Called)

\* C14: once the list is built it holds every configuration exactly once:
\* the explicit configuration first when one was passed, then the default
\* configuration, then the others by ascending creation time (ascending id).
C14_OrderOfConfigurations ==
    gen.pc # "start" =>
        LET todo == gen.todo
            first == IF gen.explicit # 0 THEN 2 ELSE 1
            rest == IF \E d \in DefaultSet(configs) : d # gen.explicit
                    THEN first + 1 ELSE first
        IN  /\ \A i, j \in 1..Len(todo) : i # j => todo[i] # todo[j]
            /\ {todo[i] : i \in 1..Len(todo)} = ExistingSet(configs)
            /\ gen.explicit # 0 => todo[1] = gen.explicit
            /\ \A d \in DefaultSet(configs) : d # gen.explicit => todo[first] = d
            /\ \A i, j \in rest..Len(todo) : i < j => todo[i] < todo[j]

\* C14, its case: an explicit configuration was passed, the default is
\* another one, and a configuration older than the default comes last.
C14_Witness ==
    /\ gen.pc = "loop"
    /\ Len(gen.todo) = 3
    /\ gen.explicit # 0
    /\ gen.todo[2] \in DefaultSet(configs)
    /\ gen.todo[3] < gen.todo[2]
    /\ gen.todo[3] < gen.todo[1]

\* C15: when generate_content_for_post ends after the text was generated and
\* no image prompt was obtained, the text is stored and the post is "ready".
C15_MissingPromptStillReady ==
    [][\A w \in WorkerIds :
          (/\ workers[w].pc = "generated"
           /\ workers[w].text = "text"
           /\ workers[w].prompt = "None"
           /\ workers'[w].pc = "idle") =>
              /\ posts'[workers[w].post_id].status = "ready"
              /\ posts'[workers[w].post_id].generated_content = "text"]_vars

\* The image generation of a publication failed (it returned None or
\* raised): the task has an image prompt and no image path.
ImageFailed(f) == f.image = "None" /\ f.post.generated_image_prompt # ""

\* C16: when the image generation fails, the step leaves every post as it
\* is and the task goes on; the step that ends the task stores the text and
\* the (empty) image file the task loaded, and marks the post failed only
\* for an error of the publication itself.
C16_ImageFailureLeavesText ==
    [][\A w \in WorkerIds :
          LET p == workers[w].post_id IN
          /\ (workers[w].pc = "publishing" /\ workers'[w].pc # "publishing"
                 /\ workers[w].post.generated_image_prompt # ""
                 /\ (workers'[w].pc = "idle" \/ ImageFailed(workers'[w]))) =>
                 /\ posts' = posts
                 /\ workers'[w].pc = "imaged"
                 /\ workers'[w].post = workers[w].post
          /\ (workers[w].pc = "imaged" /\ ImageFailed(workers[w])
                 /\ workers'[w].pc = "idle") =>
                 /\ posts'[p].generated_content = workers[w].post.generated_content
                 /\ posts'[p].generated_image_file = workers[w].post.generated_image_file
                 /\ posts'[p].status \in {"published", "failed"}
                 /\ posts'[p].status = "failed" =>
                       posts'[p].error_message \in
                           {"facebook_error", "error", "integrity_error"}]_vars

\* C16, its case: a post with an image prompt was published without an
\* image file after its image generation failed.
C16_Witness ==
    \E p \in PostIds :
        /\ posts[p].status = "published"
        /\ posts[p].generated_image_prompt = "prompt"
        /\ posts[p].generated_image_file = ""
        /\ posts[p].generated_content = "text"
        /\ fbPosts[p] = 1

\* C17: when generate_content_for_post ends after a text and an image prompt
\* were both obtained, the post is "ready", its generated_content is the text
\* the text fallback returned and its generated_image_prompt is the prompt
\* the image-prompt fallback returned.
C17_GeneratedContentStored ==
    [][\A w \in WorkerIds :
          (/\ workers[w].pc = "generated"
           /\ workers[w].text \notin {"", "raises"}
           /\ workers[w].prompt # "None"
           /\ workers'[w].pc = "idle") =>
              /\ posts'[workers[w].post_id].status = "ready"
              /\ posts'[workers[w].post_id].generated_content = workers[w].text
              /\ posts'[workers[w].post_id].generated_image_prompt
                    = workers[w].prompt]_vars

\* C17, its case: a generation task has ended and left a post ready with
\* the text and the prompt.
C17_Witness ==
    \E p \in PostIds :
        /\ posts[p].status = "ready"
        /\ posts[p].generated_content = "text"
        /\ posts[p].generated_image_prompt = "prompt"
        /\ \A w \in WorkerIds : workers[w].pc = "idle"

(***************************************************************************)
(* Claiming of due items by process_scheduled_posts (SpecSweep).           *)
(***************************************************************************)
\* The ids a run holds in its selection.
SelectedIds(f) == {f.sel[i].id : i \in 1..Len(f.sel)}

\* C18: a run that starts selects no item whose stored status is
\* "publishing": it selects only items that are "ready" at that moment.
\* With no operation that returns a claimed item to "ready", an item for
\* which a publish task was dispatched is selected by no run that starts
\* afterwards.
C18_ClaimedItemsNotReselected ==
    [][\A s \in SweepIds :
          (~InLoop(sweeps[s]) /\ InLoop(sweeps'[s])) =>
              \A p \in PostIds :
                  (\/ posts[p].status = "publishing"
                   \/ posts[p].status # "ready"
                   \/ queue[<<"publish", p>>] > 0) =>
                      p \notin SelectedIds(sweeps'[s])]_vars

\* C18, its case: a run has returned after dispatching a due item, which is
\* "publishing"; the run that started afterwards holds the other item only.
C18_Witness ==
    \E s, t \in SweepIds, p \in PostIds :
        /\ sweeps[t].pc = "done"
        /\ sweeps[t].dispatched = <<p>>
        /\ posts[p].status = "publishing"
        /\ posts[p].scheduled_time <= now
        /\ sweeps[s].pc = "loop"
        /\ sweeps[s].idx = 1
        /\ Len(sweeps[s].sel) = 1
        /\ p \notin SelectedIds(sweeps[s])

\* C19: a run claims every item of its selection without looking at the
\* stored row again: its next step on an item stores "publishing" whatever
\* status the row holds by then, so two runs that selected the same item
\* both dispatch it.
C19_ClaimWithoutGuard ==
    [][\A s \in SweepIds :
          (/\ sweeps[s].pc = "loop"
           /\ sweeps[s].idx <= Len(sweeps[s].sel)
           /\ sweeps'[s] # sweeps[s]) =>
              /\ sweeps'[s].pc = "dispatch"
              /\ posts'[sweeps[s].sel[sweeps[s].idx].id].status = "publishing"]_vars

\* C19, its case: two runs have selected the same ready item and each has
\* dispatched a publish task for it.
C19_Witness ==
    \E s, t \in SweepIds, p \in PostIds :
        /\ s # t
        /\ sweeps[s].pc = "done"
        /\ sweeps[t].pc = "done"
        /\ sweeps[s].dispatched = <<p>>
        /\ sweeps[t].dispatched = <<p>>
        /\ queue[<<"publish", p>>] = 2

C21_ScheduleSettlesEveryDestination ==
    /\ pub.pc \in {"scheduling", "done"} =>
          /\ pub.calls = <<>>
          /\ Len(pub.success) + Len(pub.failed) = pub.i - 1
          /\ \A k \in 1..Len(pub.success) :
                LET e == pub.success[k] IN
                /\ e.scheduled_post_id \in 1..Len(pub.created)
                /\ pub.created[e.scheduled_post_id].status = "pending"
                /\ pub.created[e.scheduled_post_id].page = e.page_id
                /\ \A j \in 1..Len(pub.success) :
                      pub.success[j].scheduled_post_id = e.scheduled_post_id => j = k
    /\ pub.pc # "raised"
    /\ pub.pc = "done" => pub.processed = pub.total_pages

\* A call that returned after a success, a missing page and an exception in
\* the loop body.
C21_Witness ==
    /\ pub.pc = "done"
    /\ pub.created # <<>>
    /\ Len(pub.success) >= 1
    /\ \E k \in 1..Len(pub.failed) : pub.failed[k].error = "internal"
    /\ \E k \in 1..Len(pub.failed) : pub.failed[k].error = "not_found"

\* C22: when generate_text_with_fallback starts on an empty registry without
\* an explicit configuration, building the list leaves exactly one
\* configuration in the registry, flagged default, as the only one to try;
\* and a call that created the default ends only after the provider was
\* called with it, never with "no valid configuration".
C22_EmptyRegistryCreatesDefault ==
    /\ [][(gen.pc = "start" /\ gen.explicit = 0 /\ ExistingSet(configs) = {}
              /\ gen'.pc # "start") =>
            /\ Cardinality(ExistingSet(configs')) = 1
            /\ DefaultSet(configs') = ExistingSet(configs')
            /\ Len(gen'.todo) = 1
            /\ gen'.todo[1] \in DefaultSet(configs')
            /\ gen'.created_default]_vars
    /\ [](gen.created_default /\ gen.pc \in {"returned", "raised"} =>
            /\ gen.attempts # <<>>
            /\ gen.attempts[1].cfg \in DefaultSet(configs)
            /\ gen.attempts[1].outcome \in {"ok", "failed"}
            /\ gen.failure.kind # "no_valid_config")

\* A call that created the default configuration and got its text from it.
C22_Witness ==
    /\ gen.created_default
    /\ gen.pc = "returned"
    /\ gen.result.cfg \in DefaultSet(configs)
    /\ Cardinality(ExistingSet(configs)) = 1

\* C23: for the same registry and no explicit configuration, the list
\* generate_text_with_fallback builds is the list
\* generate_image_prompt_with_fallback tries, and its providers are the ones
\* generate_image_with_fallback tries, in the same order.
C23_SameListForImageFallbacks ==
    [][(gen.pc = "start" /\ gen.explicit = 0 /\ gen'.pc = "loop") =>
          /\ gen'.todo = ImagePromptConfigsToTry(configs)
          /\ ProvidersOf(gen'.todo, configs') = ImageProvidersToTry]_vars

PrePublishStatuses ==
    {"pending", "generating", "ready", "pending_approval", "approved"}

\* An operation on post p after which p is cancelled.
CancelStep(p) ==
    /\ \E st \in Statuses : AdminChangeStatus(p, st)
    /\ posts'[p].status = "cancelled"

C25_ValidateNeverRaises ==
    api.caller = "validate_access_token" =>
        /\ api.pc # "raised"
        /\ api.pc = "returned" /\ api.failed => api.result = "False"
        /\ api.pc = "returned" /\ api.result = "True" => "id" \in api.body.keys

\* No task for post p is queued or running and no sweep is under way.
TasksFinished(p) ==
    /\ \A k \in TaskKinds : queue[<<k, p>>] = 0
    /\ \A w \in WorkerIds : workers[w].pc # "idle" => workers[w].post_id # p
    /\ NoSweepRunning

\* C26: for every post for which a create_post call succeeded, once every
\* task for the post has finished the status is "published" and exactly one
\* PublishedPost row references the post.
C26_SuccessfulPublicationStaysPublished ==
    \A p \in PostIds :
        fbPosts[p] > 0 /\ TasksFinished(p) =>
            /\ posts[p].status = "published"
            /\ published[p] = 1

\* The generation tasks dispatched for post p that have not finished yet.
GenerationTasks(p) ==
    queue[<<"generate", p>>]
        + Cardinality({w \in WorkerIds : /\ workers[w].pc # "idle"
                                          /\ workers[w].kind = "generate"
                                          /\ workers[w].post_id = p})

\* C27: successive runs of schedule_content_generation dispatch
\* generate_content_for_post at most once for a post, so at no time are two
\* generation tasks for the same post queued or running.
C27_GenerationDispatchedOnce == \A p \in PostIds : GenerationTasks(p) <= 1

\* C28: under periodic runs of schedule_content_generation and fair task
\* execution, every pending post eventually leaves "pending", whatever its
\* scheduled_time was when it was created.
C28_PendingEventuallyDispatched ==
    \A p \in PostIds :
        (posts[p].status = "pending") ~> (posts[p].status # "pending")

\* C29: no publish path calls create_post for a page whose can_publish is
\* false: every call made by auto_generate_and_post_content, like every call
\* of the batch publication, is for a page that can publish.
C29_EveryPathChecksCapability ==
    \A k \in 1..Len(pub.calls) : pages[pub.calls[k]].can_publish

\* C30: every failed entry carries the page_name of the destination of its
\* own page_id, or the unknown placeholder, never the name of a destination
\* handled in an earlier pass (a page's name is written as its id).
C30_FailedEntryNamesOwnPage ==
    \A k \in 1..Len(pub.failed) :
        pub.failed[k].page_name \in {pub.failed[k].page_id, Desconhecida}

====
